---------------------------- MODULE Spec2Model ----------------------------
(***************************************************************************)
(* Kakeibo ledger (src/app.py): the transacoes table and the configuracoes *)
(* table behind one MySQL connection, the decorated backend functions, the *)
(* Streamlit handlers that call them, and the queries that aggregate,      *)
(* classify and paginate the stored transactions.                          *)
(***************************************************************************)
EXTENDS Integers, Sequences, FiniteSets, TLC

VARIABLES
    transacoes,              \* rows of table transacoes (a set of records, key id)
    next_id,                 \* AUTO_INCREMENT counter of transacoes.id
    configuracoes,           \* table configuracoes: nome -> valor (a string)
    conn,                    \* st.session_state.conn: "up" or "down" (lost)
    current_page_num,        \* st.session_state.current_page_num
    editing_transaction_id,  \* st.session_state.editing_transaction_id (0 = None)
    edit_data,               \* st.session_state.edit_data (<<>> = {})
    last,                    \* what the last script run did and displayed
    view                     \* what the last query returned to its caller

vars == <<transacoes, next_id, configuracoes, conn, current_page_num,
          editing_transaction_id, edit_data, last, view>>

-----------------------------------------------------------------------------
(* Bounds *)

\* ids the AUTO_INCREMENT counter may hand out in the ledger specification
MaxId == 2

-----------------------------------------------------------------------------
(* Dates: <<year, month, day>>, compared as datetime.date compares. *)

DateLess(a, b) ==
    \/ a[1] < b[1]
    \/ a[1] = b[1] /\ a[2] < b[2]
    \/ a[1] = b[1] /\ a[2] = b[2] /\ a[3] < b[3]

YEAR(d) == d[1]

MONTH(d) == d[2]

Tipos == {"despesa", "receita"}

\* Python bool -> TINYINT column, and back (bool(edit_record['pago']))
BoolToTiny(b) == IF b THEN 1 ELSE 0

TinyToBool(n) == n # 0

\* what a form submits: every column but id
Row(id, f) ==
    [id |-> id, data |-> f.data, valor |-> f.valor, tipo |-> f.tipo,
     categoria |-> f.categoria, descricao |-> f.descricao,
     forma_pagamento |-> f.forma_pagamento, pago |-> BoolToTiny(f.pago)]

Ids(tbl) == {r.id : r \in tbl}

RowOf(tbl, id) == CHOOSE r \in tbl : r.id = id

-----------------------------------------------------------------------------
(* The SQL statements, on a table value. *)

SqlInsert(tbl, id, f) == tbl \cup {Row(id, f)}

SqlUpdate(tbl, id, f) == {IF r.id = id THEN Row(id, f) ELSE r : r \in tbl}

SqlMarkPaid(tbl, id) == {IF r.id = id THEN [r EXCEPT !.pago = 1] ELSE r : r \in tbl}

SqlDelete(tbl, id) == {r \in tbl : r.id # id}

-----------------------------------------------------------------------------
(* Faults of one run of a backend function.  A database call raises either *)
(* OperationalError with errno 2006 ("gone") or any other exception        *)
(* ("other").  at = "cursor": conn.cursor() raises, before the try block.  *)
(* at = "try": cursor.execute() or conn.commit() raises inside the try     *)
(* block; the except clause then calls conn.rollback(), which returns      *)
(* ("ok") or raises itself.  dead: the connection is lost by this fault    *)
(* (a rejected statement leaves it alive, and rollback then succeeds).     *)
(***************************************************************************)
ExcKinds == {"gone", "other"}

NoFault == [at |-> "none", exc |-> "none", dead |-> FALSE, rollback |-> "none"]

Faults ==
    {NoFault}
    \cup {[at |-> "cursor", exc |-> k, dead |-> TRUE, rollback |-> "none"] : k \in ExcKinds}
    \cup {[at |-> "try", exc |-> "other", dead |-> FALSE, rollback |-> "ok"]}
    \cup {[at |-> "try", exc |-> k, dead |-> TRUE, rollback |-> r] :
             k \in ExcKinds, r \in {"ok", "gone", "other"}}

\* a lost connection fails at the first call made on it
FaultsOn(c) == IF c = "up" THEN Faults ELSE {f \in Faults : f.at = "cursor"}


\* whether one run that meets this fault leaves the function by raising errno 2006
RaisesGone(ft) ==
    \/ ft.at = "cursor" /\ ft.exc = "gone"
    \/ ft.at = "try" /\ ft.rollback = "gone"

\* the faults of a read function: it has no try block, any raise leaves it
ReadFaults == {f \in Faults : f.at # "try"}

(***************************************************************************)
(* What the environment does to one decorated call: the fault of the first *)
(* run and, when that run raises errno 2006, whether init_connection()     *)
(* succeeds and the fault of the second run.                               *)
(***************************************************************************)
Scripts(c, FS) ==
    {[first |-> f, reconnect |-> FALSE, second |-> NoFault] :
        f \in FS \cap FaultsOn(c)}
    \cup {[first |-> f, reconnect |-> TRUE, second |-> g] :
        f \in {x \in FS \cap FaultsOn(c) : RaisesGone(x)}, g \in FS}

-----------------------------------------------------------------------------
(* The backend functions.  db is the database: [transacoes, next_id,       *)
(* configuracoes].  One run returns [ret, db, conn]: ret is "True",        *)
(* "False" or "value" (a read's result is computed by the caller from db), *)
(* or the exception that leaves the function ("gone", "other").            *)
(***************************************************************************)

\* a faulty variant: the statement is applied although the except clause runs (autocommit)
TryCommitAutocommit(db, staged, ft, c) ==
    IF ft.at = "none" THEN [ret |-> "True", db |-> staged, conn |-> c]
    ELSE IF ft.at = "cursor" THEN [ret |-> ft.exc, db |-> db, conn |-> "down"]
    ELSE IF ft.rollback = "ok"
         THEN [ret |-> "False", db |-> staged, conn |-> IF ft.dead THEN "down" ELSE c]
         ELSE [ret |-> ft.rollback, db |-> staged, conn |-> "down"]

\* cursor(); try: execute, commit, return True; except: rollback, return False
\* (a statement takes effect at commit; cursor.close() does not raise)
TryCommit(db, staged, ft, c) ==
    IF ft.at = "none" THEN [ret |-> "True", db |-> staged, conn |-> c]
    ELSE IF ft.at = "cursor" THEN [ret |-> ft.exc, db |-> db, conn |-> "down"]
    ELSE IF ft.rollback = "ok"
         THEN [ret |-> "False", db |-> db, conn |-> IF ft.dead THEN "down" ELSE c]
         ELSE [ret |-> ft.rollback, db |-> db, conn |-> "down"]

\* cursor(); execute; fetch; close: no try block
ReadRun(db, ft, c) ==
    IF ft.at = "none" THEN [ret |-> "value", db |-> db, conn |-> c]
    ELSE [ret |-> ft.exc, db |-> db, conn |-> "down"]

insert_transaction__wrapped(db, f, ft, c) ==
    TryCommit(db,
              [db EXCEPT !.transacoes = SqlInsert(@, db.next_id, f),
                         !.next_id = @ + 1],
              ft, c)

update_transaction__wrapped(db, id, f, ft, c) ==
    TryCommit(db, [db EXCEPT !.transacoes = SqlUpdate(@, id, f)], ft, c)

\* a faulty variant: UPDATE transacoes SET pago = 1 without the WHERE clause
mark_all_as_paid__wrapped(db, id, ft, c) ==
    TryCommit(db, [db EXCEPT !.transacoes = {[r EXCEPT !.pago = 1] : r \in @}],
              ft, c)

mark_transaction_as_paid__wrapped(db, id, ft, c) ==
    TryCommit(db, [db EXCEPT !.transacoes = SqlMarkPaid(@, id)], ft, c)

\* a faulty variant: DELETE FROM transacoes without the WHERE clause
delete_every_transaction__wrapped(db, id, ft, c) ==
    TryCommit(db, [db EXCEPT !.transacoes = {}], ft, c)

delete_transaction__wrapped(db, id, ft, c) ==
    TryCommit(db, [db EXCEPT !.transacoes = SqlDelete(@, id)], ft, c)

update_db_value__wrapped(db, name, value, ft, c) ==
    TryCommit(db,
              [db EXCEPT !.configuracoes =
                  [n \in DOMAIN @ |-> IF n = name THEN value ELSE @[n]]],
              ft, c)

(***************************************************************************)
(* wrapper() of reconnect_on_error: r1 is the first run, r2 the second     *)
(* (made on the new connection, from the database the first run left).     *)
(* init_connection() that fails calls st.stop(): the script run ends.      *)
(***************************************************************************)
reconnect_on_error(r1, r2, reconnect) ==
    IF r1.ret = "gone"
    THEN IF reconnect
         THEN [ret |-> r2.ret, db |-> r2.db, conn |-> r2.conn,
               runs |-> 2, reconnects |-> 1]
         ELSE [ret |-> "stopped", db |-> r1.db, conn |-> r1.conn,
               runs |-> 1, reconnects |-> 0]
    ELSE [ret |-> r1.ret, db |-> r1.db, conn |-> r1.conn,
          runs |-> 1, reconnects |-> 0]

insert_transaction(db, f, s, c) ==
    LET r1 == insert_transaction__wrapped(db, f, s.first, c)
        r2 == insert_transaction__wrapped(r1.db, f, s.second, "up")
    IN  reconnect_on_error(r1, r2, s.reconnect)

update_transaction(db, id, f, s, c) ==
    LET r1 == update_transaction__wrapped(db, id, f, s.first, c)
        r2 == update_transaction__wrapped(r1.db, id, f, s.second, "up")
    IN  reconnect_on_error(r1, r2, s.reconnect)

mark_transaction_as_paid(db, id, s, c) ==
    LET r1 == mark_transaction_as_paid__wrapped(db, id, s.first, c)
        r2 == mark_transaction_as_paid__wrapped(r1.db, id, s.second, "up")
    IN  reconnect_on_error(r1, r2, s.reconnect)

delete_transaction(db, id, s, c) ==
    LET r1 == delete_transaction__wrapped(db, id, s.first, c)
        r2 == delete_transaction__wrapped(r1.db, id, s.second, "up")
    IN  reconnect_on_error(r1, r2, s.reconnect)

update_db_value(db, name, value, s, c) ==
    LET r1 == update_db_value__wrapped(db, name, value, s.first, c)
        r2 == update_db_value__wrapped(r1.db, name, value, s.second, "up")
    IN  reconnect_on_error(r1, r2, s.reconnect)

\* a decorated read: the caller computes the value from db when ret = "value"
ReadCall(db, s, c) ==
    reconnect_on_error(ReadRun(db, s.first, c), ReadRun(db, s.second, "up"),
                       s.reconnect)

-----------------------------------------------------------------------------
(* Queries.  ORDER BY data DESC names no second key: rows of one date come *)
(* in the order the server happens to read them, which may differ from one *)
(* statement to the next.  tie is that order: by id ascending or           *)
(* descending.                                                             *)
(***************************************************************************)
TieOrders == {"asc", "desc"}

Before(r, q, tie) ==
    \/ DateLess(q.data, r.data)
    \/ /\ q.data = r.data
       /\ IF tie = "asc" THEN r.id < q.id ELSE r.id > q.id

RECURSIVE OrderByDataDesc(_, _)
OrderByDataDesc(rows, tie) ==
    IF rows = {} THEN <<>>
    ELSE LET r == CHOOSE x \in rows : \A q \in rows \ {x} : Before(x, q, tie)
         IN  <<r>> \o OrderByDataDesc(rows \ {r}, tie)

\* LIMIT n OFFSET k
LimitOffset(seq, n, k) ==
    IF k >= Len(seq) THEN <<>>
    ELSE SubSeq(seq, k + 1, IF k + n <= Len(seq) THEN k + n ELSE Len(seq))

PageSize == 10

get_paginated_transactions__wrapped(tbl, page_number, page_size, tie) ==
    LET offset == (page_number - 1) * page_size
    IN  [records |-> LimitOffset(OrderByDataDesc(tbl, tie), page_size, offset),
         total_records |-> Cardinality(tbl)]

SeqRange(seq) == {seq[i] : i \in 1..Len(seq)}

-----------------------------------------------------------------------------
(* Aggregates.  SUM over no row is NULL: Sql values are [null, value].     *)
(***************************************************************************)
RECURSIVE SumValor(_)
SumValor(rows) ==
    IF rows = {} THEN 0
    ELSE LET r == CHOOSE x \in rows : TRUE
         IN  r.valor + SumValor(rows \ {r})

SqlSum(rows) ==
    IF rows = {} THEN [null |-> TRUE, value |-> 0]
    ELSE [null |-> FALSE, value |-> SumValor(rows)]

\* Python truth of a fetched value: None and 0 are false
Truthy(v) == ~v.null /\ v.value # 0

\* a faulty variant: the WHERE clause lacks MONTH(data) = %s
get_total_by_type_any_month(tbl, year, month, transaction_type) ==
    LET result == SqlSum({r \in tbl : /\ YEAR(r.data) = year
                                      /\ r.tipo = transaction_type})
    IN  IF Truthy(result) THEN result.value ELSE 0

\* int(result[0]) if result[0] else 0
get_total_by_type(tbl, year, month, transaction_type) ==
    LET result == SqlSum({r \in tbl : /\ YEAR(r.data) = year
                                      /\ MONTH(r.data) = month
                                      /\ r.tipo = transaction_type})
    IN  IF Truthy(result) THEN result.value ELSE 0

\* a faulty variant: the WHERE clause lacks tipo = 'despesa'
ExpenseGroupsAnyTipo(tbl, year, month) ==
    LET rows == {r \in tbl : /\ YEAR(r.data) = year
                             /\ MONTH(r.data) = month}
    IN  {[categoria |-> cat,
          total |-> SqlSum({r \in rows : r.categoria = cat}).value] :
            cat \in {r.categoria : r \in rows}}

\* SELECT categoria, SUM(valor) AS total ... GROUP BY categoria
ExpenseGroups(tbl, year, month) ==
    LET rows == {r \in tbl : /\ YEAR(r.data) = year
                             /\ MONTH(r.data) = month
                             /\ r.tipo = "despesa"}
    IN  {[categoria |-> cat,
          total |-> SqlSum({r \in rows : r.categoria = cat}).value] :
            cat \in {r.categoria : r \in rows}}

\* ORDER BY total DESC: every order of the groups the statement may return
\* (groups of one total come in any order)
get_expenses_by_category(tbl, year, month) ==
    LET groups == ExpenseGroups(tbl, year, month)
        n == Cardinality(groups)
    IN  {seq \in [1..n -> groups] :
            /\ \A i, j \in 1..n : i # j => seq[i] # seq[j]
            /\ \A i \in 1..n : i < n => seq[i].total >= seq[i + 1].total}

-----------------------------------------------------------------------------
(* get_calendar_events: the colour of each event.  event_color is a local  *)
(* of the function, assigned in the loop body: a row whose tipo is neither *)
(* 'receita' nor 'despesa' keeps the colour of the row before it, and      *)
(* raises UnboundLocalError when it is the first.                          *)
(***************************************************************************)
Verde == "#34A853"

Azul == "#4285F4"

Vermelho == "#EA4335"

Amarelo == "#FBBC04"

\* a faulty variant: t['data'] <= today
event_color_of_le(t, today, event_color) ==
    IF t.tipo = "receita" THEN Verde
    ELSE IF t.tipo = "despesa"
         THEN IF t.pago = 1 THEN Azul
              ELSE IF ~DateLess(today, t.data) THEN Vermelho
              ELSE Amarelo
         ELSE event_color

event_color_of(t, today, event_color) ==
    IF t.tipo = "receita" THEN Verde
    ELSE IF t.tipo = "despesa"
         THEN IF t.pago = 1 THEN Azul
              ELSE IF DateLess(t.data, today) THEN Vermelho
              ELSE Amarelo
         ELSE event_color

RECURSIVE CalendarLoop(_, _, _, _)
CalendarLoop(ts, i, today, event_color) ==
    IF i > Len(ts) THEN <<>>
    ELSE LET color == event_color_of(ts[i], today, event_color)
         IN  <<[start |-> ts[i].data, color |-> color]>>
             \o CalendarLoop(ts, i + 1, today, color)

get_transactions_by_month__wrapped(tbl, year, month, tie) ==
    OrderByDataDesc({r \in tbl : YEAR(r.data) = year /\ MONTH(r.data) = month}, tie)

get_calendar_events(tbl, year, month, today, tie) ==
    CalendarLoop(get_transactions_by_month__wrapped(tbl, year, month, tie),
                 1, today, "UnboundLocalError")

-----------------------------------------------------------------------------
(* The handlers.  Each returns what the script run leaves: msg is what it  *)
(* displays ("success", "warning" for the amount check, "none" when the    *)
(* backend returned False, "exception" when the call raised, "stopped"     *)
(* when init_connection() stopped the script), db and conn as left, and    *)
(* how many times the backend function ran.                                *)
(***************************************************************************)
Msg(ret) ==
    CASE ret = "True" -> "success"
      [] ret = "value" -> "success"
      [] ret = "False" -> "none"
      [] ret = "stopped" -> "stopped"
      [] OTHER -> "exception"

Rejected(db, c) ==
    [msg |-> "warning", ret |-> "none", db |-> db, conn |-> c,
     runs |-> 0, reconnects |-> 0, lost |-> FALSE]

\* whether a database call of the first run raised errno 2006
LostConnection(s) == s.first.exc = "gone" \/ s.first.rollback = "gone"

Displayed(o, s) ==
    [msg |-> Msg(o.ret), ret |-> o.ret, db |-> o.db, conn |-> o.conn,
     runs |-> o.runs, reconnects |-> o.reconnects, lost |-> LostConnection(s)]

\* a faulty variant: the amount check lets 0 through
transaction_form_submit_lt(db, f, s, c) ==
    IF f.valor < 0 THEN Rejected(db, c)
    ELSE Displayed(insert_transaction(db, f, s, c), s)

\* if submit_transaction: ...
transaction_form_submit(db, f, s, c) ==
    IF f.valor <= 0 THEN Rejected(db, c)
    ELSE Displayed(insert_transaction(db, f, s, c), s)

\* if save_button: ...     (id is edit_record['id'])
edit_form_save(db, id, f, s, c) ==
    IF f.valor <= 0 THEN Rejected(db, c)
    ELSE Displayed(update_transaction(db, id, f, s, c), s)

\* the Pagar button
pagar_button(db, id, s, c) == Displayed(mark_transaction_as_paid(db, id, s, c), s)

\* the Excluir button
excluir_button(db, id, s, c) == Displayed(delete_transaction(db, id, s, c), s)

-----------------------------------------------------------------------------
(* The ledger specification: the Home form and the Registros page of one   *)
(* session.                                                                *)
(***************************************************************************)

\* the two transactions of the specification's scenario, as form contents
FormPresets ==
    {[data |-> <<2024, 6, 1>>, valor |-> 5000, tipo |-> "despesa",
      categoria |-> "food", descricao |-> "", forma_pagamento |-> "cash"],
     [data |-> <<2024, 6, 15>>, valor |-> 2000, tipo |-> "receita",
      categoria |-> "salary", descricao |-> "bonus", forma_pagamento |-> "bank"]}

FormOf(p, v, b) ==
    [data |-> p.data, valor |-> v, tipo |-> p.tipo, categoria |-> p.categoria,
     descricao |-> p.descricao, forma_pagamento |-> p.forma_pagamento,
     pago |-> b]

\* what a form can submit: the amount may be anything, also 0 or negative
Forms ==
    UNION {{FormOf(p, v, b) : v \in {p.valor, 0, -1}, b \in BOOLEAN} :
              p \in FormPresets}

NoSettings == [categorias |-> <<>>, formas_pagamento |-> <<>>]

DB == [transacoes |-> transacoes, next_id |-> next_id,
       configuracoes |-> configuracoes]

\* the rows the Registros page shows: get_paginated_transactions(current_page_num)
Shown ==
    UNION {SeqRange(get_paginated_transactions__wrapped(
                        transacoes, current_page_num, PageSize, tie).records) :
              tie \in TieOrders}

NoScript == [first |-> NoFault, reconnect |-> FALSE, second |-> NoFault]

\* a form whose amount is refused makes no database call: nothing can fail
ScriptsFor(f, c) == IF f.valor <= 0 THEN {NoScript} ELSE Scripts(c, Faults)

Init ==
    /\ transacoes = {}
    /\ next_id = 1
    /\ configuracoes = NoSettings
    /\ conn = "up"
    /\ current_page_num = 1
    /\ editing_transaction_id = 0
    /\ edit_data = <<>>
    /\ last = [op |-> "start", msg |-> "none", runs |-> 0, lost |-> FALSE]
    /\ view = <<>>

Leaves(o, op) ==
    /\ transacoes' = o.db.transacoes
    /\ next_id' = o.db.next_id
    /\ configuracoes' = o.db.configuracoes
    /\ conn' = o.conn
    /\ last' = [op |-> op, msg |-> o.msg, runs |-> o.runs, lost |-> o.lost]

\* Home: the "Registrar" form
SubmitTransaction ==
    /\ next_id <= MaxId
    /\ \E f \in Forms : \E s \in ScriptsFor(f, conn) :
          Leaves(transaction_form_submit(DB, f, s, conn), "create")
    /\ UNCHANGED <<current_page_num, editing_transaction_id, edit_data, view>>

\* Registros: the page itself, get_paginated_transactions(current_page_num)
Registros ==
    /\ \E s \in Scripts(conn, ReadFaults) :
          Leaves(Displayed(ReadCall(DB, s, conn), s), "registros")
    /\ UNCHANGED <<current_page_num, editing_transaction_id, edit_data, view>>

\* Registros: "Editar" of a shown record
Editar ==
    /\ \E record \in Shown :
          /\ editing_transaction_id' = record.id
          /\ edit_data' = record
    /\ last' = [op |-> "edit", msg |-> "none", runs |-> 0, lost |-> FALSE]
    /\ UNCHANGED <<transacoes, next_id, configuracoes, conn, current_page_num, view>>

\* Registros: "Pagar", offered for an unpaid despesa
Pagar ==
    /\ \E record \in Shown :
          /\ record.pago = 0 /\ record.tipo = "despesa"
          /\ \E s \in Scripts(conn, Faults) :
                Leaves(pagar_button(DB, record.id, s, conn), "mark")
    /\ UNCHANGED <<current_page_num, editing_transaction_id, edit_data, view>>

\* Registros: "Excluir" of a shown record
Excluir ==
    /\ \E record \in Shown :
          \E s \in Scripts(conn, Faults) :
             Leaves(excluir_button(DB, record.id, s, conn), "delete")
    /\ UNCHANGED <<current_page_num, editing_transaction_id, edit_data, view>>

\* Registros: "Salvar Edição" of the edit form
SalvarEdicao ==
    /\ editing_transaction_id # 0
    /\ \E f \in Forms : \E s \in ScriptsFor(f, conn) :
          LET o == edit_form_save(DB, edit_data.id, f, s, conn)
          IN  /\ Leaves(o, "update")
              /\ editing_transaction_id' =
                    IF o.msg = "success" THEN 0 ELSE editing_transaction_id
    /\ UNCHANGED <<current_page_num, edit_data, view>>

\* Registros: "Cancelar" of the edit form
Cancelar ==
    /\ editing_transaction_id # 0
    /\ editing_transaction_id' = 0
    /\ last' = [op |-> "cancel", msg |-> "none", runs |-> 0, lost |-> FALSE]
    /\ UNCHANGED <<transacoes, next_id, configuracoes, conn, current_page_num,
                   edit_data, view>>

Next ==
    \/ SubmitTransaction
    \/ Registros
    \/ Editar
    \/ Pagar
    \/ Excluir
    \/ SalvarEdicao
    \/ Cancelar

Spec == Init /\ [][Next]_vars

\* the same session with the edit form never opened
NextLedger ==
    \/ SubmitTransaction
    \/ Registros
    \/ Pagar
    \/ Excluir

SpecLedger == Init /\ [][NextLedger]_vars

-----------------------------------------------------------------------------
(* The aggregation specification: the Home page (totals of the month and   *)
(* the calendar) and the Gastos page, on any ledger of at most MaxId rows. *)
(***************************************************************************)
Todays == {<<2024, 5, 1>>, <<2024, 6, 1>>, <<2024, 6, 20>>}

Months == {<<2024, 5>>, <<2024, 6>>, <<2023, 6>>}

AggForms ==
    [data : {<<2024, 5, 20>>, <<2024, 6, 1>>}, valor : {1000, 2000},
     tipo : Tipos, categoria : {"food", "rent"}, descricao : {""},
     forma_pagamento : {"cash"}, pago : {FALSE}]

InitAgg ==
    /\ \E n \in 0..MaxId : \E g \in [1..n -> AggForms] :
          /\ transacoes = {Row(i, g[i]) : i \in 1..n}
          /\ next_id = n + 1
    /\ configuracoes = NoSettings
    /\ conn = "up"
    /\ current_page_num = 1
    /\ editing_transaction_id = 0
    /\ edit_data = <<>>
    /\ last = [op |-> "start", msg |-> "none", runs |-> 0, lost |-> FALSE]
    /\ view = <<>>

\* Home: total_receita, total_despesa, the balance shown, the calendar events
Home ==
    /\ \E today \in Todays, tie \in TieOrders :
       \E s1 \in Scripts(conn, ReadFaults) :
          LET o1 == Displayed(ReadCall(DB, s1, conn), s1)
              ano == YEAR(today)
              mes == MONTH(today)
              total_receita == get_total_by_type(transacoes, ano, mes, "receita")
              total_despesa == get_total_by_type(transacoes, ano, mes, "despesa")
          IN  /\ Leaves(o1, "home")
              /\ view' = IF o1.msg = "success"
                         THEN [total_receita |-> total_receita,
                               total_despesa |-> total_despesa,
                               saldo |-> total_receita - total_despesa,
                               events |-> get_calendar_events(transacoes, ano, mes,
                                                              today, tie)]
                         ELSE <<>>
    /\ UNCHANGED <<current_page_num, editing_transaction_id, edit_data>>

\* Gastos: get_expenses_by_category(selected_year, selected_month)
Gastos ==
    /\ \E ym \in Months : \E s \in Scripts(conn, ReadFaults) :
          LET o == Displayed(ReadCall(DB, s, conn), s)
          IN  /\ Leaves(o, "gastos")
              /\ IF o.msg = "success"
                 THEN \E expenses_data \in
                          get_expenses_by_category(transacoes, ym[1], ym[2]) :
                        view' = [expenses_data |-> expenses_data]
                 ELSE view' = <<>>
    /\ UNCHANGED <<current_page_num, editing_transaction_id, edit_data>>

NextAgg ==
    \/ Home
    \/ Gastos

SpecAgg == InitAgg /\ [][NextAgg]_vars

-----------------------------------------------------------------------------
(* The calendar specification: the Home page on any ledger of at most      *)
(* MaxId rows, paid and unpaid, of both tipos, on the days around today.   *)
(***************************************************************************)
CalForms ==
    [data : {<<2024, 5, 20>>, <<2024, 6, 1>>}, valor : {1000},
     tipo : Tipos, categoria : {"food"}, descricao : {""},
     forma_pagamento : {"cash"}, pago : BOOLEAN]

InitCalendar ==
    /\ \E n \in 0..MaxId : \E g \in [1..n -> CalForms] :
          /\ transacoes = {Row(i, g[i]) : i \in 1..n}
          /\ next_id = n + 1
    /\ configuracoes = NoSettings
    /\ conn = "up"
    /\ current_page_num = 1
    /\ editing_transaction_id = 0
    /\ edit_data = <<>>
    /\ last = [op |-> "start", msg |-> "none", runs |-> 0, lost |-> FALSE]
    /\ view = <<>>

NextCalendar == Home

SpecCalendar == InitCalendar /\ [][NextCalendar]_vars

-----------------------------------------------------------------------------
(* The pagination specification: the Registros page opened on page 1 of    *)
(* any ledger of at most MaxRows rows and turned forward page by page.     *)
(* view.pages is what each page showed, in the order they were opened.     *)
(***************************************************************************)

\* rows of the ledger in the pagination specification
MaxRows == 11

PageDates == {<<2024, 6, 1>>, <<2024, 6, 2>>}

PageForm(d) ==
    [data |-> d, valor |-> 1000, tipo |-> "receita", categoria |-> "salary",
     descricao |-> "", forma_pagamento |-> "bank", pago |-> FALSE]

\* total_pages = (total_records + 9) // 10
total_pages(total_records) == (total_records + 9) \div 10

InitPage ==
    /\ \E n \in 0..MaxRows : \E g \in [1..n -> PageDates] :
          /\ transacoes = {Row(i, PageForm(g[i])) : i \in 1..n}
          /\ next_id = n + 1
    /\ configuracoes = NoSettings
    /\ conn = "up"
    /\ current_page_num = 1
    /\ editing_transaction_id = 0
    /\ edit_data = <<>>
    /\ last = [op |-> "start", msg |-> "none", runs |-> 0, lost |-> FALSE]
    /\ view = [pages |-> <<>>, total_records |-> 0]

\* records, total_records = get_paginated_transactions(current_page_num)
ShowPage(page_number, op) ==
    \E tie \in TieOrders : \E s \in Scripts(conn, ReadFaults) :
        LET o == Displayed(ReadCall(DB, s, conn), s)
            q == get_paginated_transactions__wrapped(transacoes, page_number,
                                                     PageSize, tie)
        IN  /\ Leaves(o, op)
            /\ view' = IF o.msg = "success"
                       THEN [pages |-> Append(view.pages, q.records),
                             total_records |-> q.total_records]
                       ELSE view

\* the Registros page is opened (current_page_num is 1)
AbrirRegistros ==
    /\ view.pages = <<>>
    /\ ShowPage(current_page_num, "page")
    /\ UNCHANGED <<current_page_num, editing_transaction_id, edit_data>>

\* "Próxima Página": offered under a page that has records, enabled unless
\* current_page_num = total_pages; the rerun shows the next page
ProximaPagina ==
    /\ view.pages # <<>>
    /\ Len(view.pages) = current_page_num
    /\ view.pages[current_page_num] # <<>>
    /\ current_page_num # total_pages(view.total_records)
    /\ current_page_num' = current_page_num + 1
    /\ editing_transaction_id' = 0
    /\ ShowPage(current_page_num + 1, "next")
    /\ UNCHANGED edit_data

NextPage ==
    \/ AbrirRegistros
    \/ ProximaPagina

SpecPage == InitPage /\ [][NextPage]_vars

-----------------------------------------------------------------------------
(* The settings specification: the two "Adicionar" forms of the            *)
(* Configurações page.  A string is a sequence of characters; the stored   *)
(* list is the string the handler joins and the next handler splits.       *)
(***************************************************************************)

\* characters of a label typed in a settings form
MaxLabelLen == 2

\* characters stored in the two settings together
MaxStored == 3

Alphabet == {"a", "b", ","}

\* what st.text_input can return: any string, the empty one too
Labels == UNION {[1..n -> Alphabet] : n \in 0..MaxLabelLen}

\* index of the first sep in s at or after i, 0 when there is none
RECURSIVE find(_, _, _)
find(s, sep, i) ==
    IF i > Len(s) THEN 0
    ELSE IF s[i] = sep THEN i
    ELSE find(s, sep, i + 1)

\* str.split(sep): ''.split(',') is ['']
RECURSIVE split(_, _)
split(s, sep) ==
    LET i == find(s, sep, 1)
    IN  IF i = 0 THEN <<s>>
        ELSE <<SubSeq(s, 1, i - 1)>> \o split(SubSeq(s, i + 1, Len(s)), sep)

\* sep.join(list)
RECURSIVE join(_, _)
join(sep, list) ==
    IF list = <<>> THEN <<>>
    ELSE IF Len(list) = 1 THEN list[1]
    ELSE list[1] \o <<sep>> \o join(sep, Tail(list))

\* x in list
In(x, list) == \E i \in 1..Len(list) : list[i] = x

\* raw.split(',') if raw else []
SplitOrEmpty(raw) == IF raw # <<>> THEN split(raw, ",") ELSE <<>>

\* what a settings handler leaves: the outcome and the list it had read
Added(o, s, categories) ==
    [out |-> Displayed(o, s), categories |-> categories]

\* if add_category_btn: ... / if add_payment_btn: ...  (the same code on
\* "categorias" and on "formas_pagamento"); sr and sw are what happens to
\* get_db_value and to update_db_value
add_label_btn(db, name, new_label, sr, sw, c) ==
    IF new_label = <<>>
    THEN [out |-> [Rejected(db, c) EXCEPT !.msg = "error"], categories |-> <<>>]
    ELSE LET rd == ReadCall(db, sr, c)
             categories == SplitOrEmpty(db.configuracoes[name])
         IN  IF rd.ret # "value" THEN Added(rd, sr, <<>>)
             ELSE IF ~In(new_label, categories)
             THEN LET updated == join(",", Append(categories, new_label))
                  IN  Added(update_db_value(db, name, updated, sw, rd.conn),
                            sw, categories)
             ELSE [out |-> Rejected(db, rd.conn), categories |-> categories]

\* the scripts of update_db_value after a get_db_value that went as sr
WriteScriptsAfter(sr, c) ==
    IF ReadCall(DB, sr, c).ret = "value" THEN Scripts("up", Faults) ELSE {NoScript}

Stored == Len(configuracoes.categorias) + Len(configuracoes.formas_pagamento)

InitSettings ==
    /\ transacoes = {}
    /\ next_id = 1
    /\ configuracoes = NoSettings
    /\ conn = "up"
    /\ current_page_num = 1
    /\ editing_transaction_id = 0
    /\ edit_data = <<>>
    /\ last = [op |-> "start", msg |-> "none", runs |-> 0, lost |-> FALSE]
    /\ view = <<>>

\* Configurações: "Adicionar Categoria"
AdicionarCategoria ==
    /\ \E new_category \in Labels :
          /\ Stored + Len(new_category) + 1 <= MaxStored
          /\ \E sr \in Scripts(conn, ReadFaults) :
             \E sw \in WriteScriptsAfter(sr, conn) :
                LET r == add_label_btn(DB, "categorias", new_category, sr, sw, conn)
                IN  /\ Leaves(r.out, "add_category")
                    /\ view' = [name |-> "categorias", new_label |-> new_category,
                                categories |-> r.categories]
    /\ UNCHANGED <<current_page_num, editing_transaction_id, edit_data>>

\* Configurações: "Adicionar Forma de Pagamento"
AdicionarFormaPagamento ==
    /\ \E new_payment_method \in Labels :
          /\ Stored + Len(new_payment_method) + 1 <= MaxStored
          /\ \E sr \in Scripts(conn, ReadFaults) :
             \E sw \in WriteScriptsAfter(sr, conn) :
                LET r == add_label_btn(DB, "formas_pagamento", new_payment_method,
                                       sr, sw, conn)
                IN  /\ Leaves(r.out, "add_payment")
                    /\ view' = [name |-> "formas_pagamento",
                                new_label |-> new_payment_method,
                                categories |-> r.categories]
    /\ UNCHANGED <<current_page_num, editing_transaction_id, edit_data>>

NextSettings ==
    \/ AdicionarCategoria
    \/ AdicionarFormaPagamento

SpecSettings == InitSettings /\ [][NextSettings]_vars

-----------------------------------------------------------------------------
(* The navigation specification: the Registros page of a ledger of at most *)
(* MaxRows rows, with its two pagination buttons, Pagar and Excluir, and   *)
(* the Home form.                                                          *)
(***************************************************************************)

\* rows deleted in the navigation specification
MaxDeletes == 2

\* the ledger holds one unpaid despesa (id 1) and receitas
NavForm(i) ==
    [data |-> <<2024, 6, 1>>, valor |-> 1000,
     tipo |-> IF i = 1 THEN "despesa" ELSE "receita", categoria |-> "food",
     descricao |-> "", forma_pagamento |-> "cash", pago |-> FALSE]

InitNav ==
    /\ \E n \in 0..MaxRows :
          /\ transacoes = {Row(i, NavForm(i)) : i \in 1..n}
          /\ next_id = n + 1
    /\ configuracoes = NoSettings
    /\ conn = "up"
    /\ current_page_num = 1
    /\ editing_transaction_id = 0
    /\ edit_data = <<>>
    /\ last = [op |-> "start", msg |-> "none", runs |-> 0, lost |-> FALSE]
    /\ view = <<>>

\* "Página Anterior": offered under a page that has records, disabled on page 1
PaginaAnterior ==
    /\ Shown # {}
    /\ current_page_num # 1
    /\ current_page_num' = current_page_num - 1
    /\ editing_transaction_id' = 0
    /\ last' = [op |-> "previous", msg |-> "none", runs |-> 0, lost |-> FALSE]
    /\ UNCHANGED <<transacoes, next_id, configuracoes, conn, edit_data, view>>

\* "Próxima Página" of the page as rendered from the table as it is now:
\* offered under a page that has records, disabled on page total_pages
PaginaSeguinte ==
    /\ Shown # {}
    /\ current_page_num # total_pages(Cardinality(transacoes))
    /\ current_page_num' = current_page_num + 1
    /\ editing_transaction_id' = 0
    /\ last' = [op |-> "following", msg |-> "none", runs |-> 0, lost |-> FALSE]
    /\ UNCHANGED <<transacoes, next_id, configuracoes, conn, edit_data, view>>

\* "Excluir" while fewer than MaxDeletes rows have been deleted
ExcluirAte ==
    /\ next_id - 1 - Cardinality(transacoes) < MaxDeletes
    /\ Excluir

NextNav ==
    \/ SubmitTransaction
    \/ PaginaAnterior
    \/ PaginaSeguinte
    \/ Pagar
    \/ ExcluirAte

SpecNav == InitNav /\ [][NextNav]_vars

-----------------------------------------------------------------------------
(* C1: a create or an update whose amount is <= 0 is refused with the      *)
(* amount warning, whatever its other arguments, and leaves the database   *)
(* as it was: no backend function runs.                                    *)
(***************************************************************************)
C1_NonPositiveAmountRejected ==
    \A f \in Forms :
        f.valor <= 0 =>
            \A s \in Scripts(conn, Faults) :
                /\ LET o == transaction_form_submit(DB, f, s, conn)
                   IN  o.msg = "warning" /\ o.db = DB /\ o.runs = 0
                /\ \A id \in 1..MaxId :
                      LET o == edit_form_save(DB, id, f, s, conn)
                      IN  o.msg = "warning" /\ o.db = DB /\ o.runs = 0

\* a create was refused for its amount while rows are stored
C1_Witness ==
    /\ last.op = "create" /\ last.msg = "warning"
    /\ transacoes # {}

-----------------------------------------------------------------------------
(* C4: a write is all or nothing.  Whatever faults the call meets, either  *)
(* it displays success and the table is the statement's result on the      *)
(* table before the call, or it does not and the table is unchanged.       *)
(***************************************************************************)
AllOrNothing(o, applied) ==
    IF o.msg = "success" THEN o.db.transacoes = applied
    ELSE o.db.transacoes = transacoes

C4_WritesAtomic ==
    \A s \in Scripts(conn, Faults) :
        /\ \A f \in {g \in Forms : g.valor > 0} :
              /\ AllOrNothing(transaction_form_submit(DB, f, s, conn),
                              transacoes \cup {Row(next_id, f)})
              /\ \A id \in 1..MaxId :
                    AllOrNothing(edit_form_save(DB, id, f, s, conn),
                                 {r \in transacoes : r.id # id}
                                 \cup {Row(id, f) : x \in {r \in transacoes : r.id = id}})
        /\ \A id \in 1..MaxId :
              /\ AllOrNothing(pagar_button(DB, id, s, conn),
                              {r \in transacoes : r.id # id}
                              \cup {[id |-> r.id, data |-> r.data, valor |-> r.valor,
                                     tipo |-> r.tipo, categoria |-> r.categoria,
                                     descricao |-> r.descricao,
                                     forma_pagamento |-> r.forma_pagamento,
                                     pago |-> 1] : r \in {x \in transacoes : x.id = id}})
              /\ AllOrNothing(excluir_button(DB, id, s, conn),
                              {r \in transacoes : r.id # id})

-----------------------------------------------------------------------------
(* C3: an operation that meets a lost connection (errno 2006) is run again *)
(* exactly once after one reconnect; it is never run more than twice, and  *)
(* its failure is never displayed or returned without that second run      *)
(* (unless the reconnect itself failed and stopped the script).            *)
(***************************************************************************)
C3_RetriedOnceOnLostConnection ==
    /\ last.runs <= 2
    /\ last.lost => (last.msg = "stopped" \/ last.runs = 2)

-----------------------------------------------------------------------------
(* C10: markPaid(id) on a stored row, when it succeeds, sets pago = 1 on   *)
(* that row, whatever its tipo and its pago before, and changes no other   *)
(* field and no other row; a despesa so marked is shown as paid whatever   *)
(* the day is.                                                             *)
(***************************************************************************)
OtherFields ==
    {"id", "data", "valor", "tipo", "categoria", "descricao", "forma_pagamento"}

C10_MarkPaidOnlySetsPaid ==
    \A id \in Ids(transacoes) : \A s \in Scripts(conn, Faults) :
        LET o == mark_transaction_as_paid(DB, id, s, conn)
            after == o.db.transacoes
        IN  o.ret = "True" =>
              /\ Ids(after) = Ids(transacoes)
              /\ Cardinality(after) = Cardinality(transacoes)
              /\ RowOf(after, id).pago = 1
              /\ \A k \in OtherFields : RowOf(after, id)[k] = RowOf(transacoes, id)[k]
              /\ \A r \in transacoes : r.id # id => r \in after
              /\ o.db.next_id = next_id
              /\ RowOf(after, id).tipo = "despesa" =>
                    \A today \in Todays, prev \in {Verde, Vermelho, Amarelo} :
                        event_color_of(RowOf(after, id), today, prev) = Azul

\* Pagar succeeded while an unpaid row and a receita row are stored beside it
C10_Witness ==
    /\ last.op = "mark" /\ last.msg = "success"
    /\ \E r \in transacoes : r.tipo = "despesa" /\ r.pago = 1
    /\ \E r \in transacoes : r.pago = 0

\* a write displayed no success after a lost connection and left the table alone
C4_Witness ==
    /\ last.op = "delete" /\ last.lost /\ last.msg = "none"
    /\ transacoes # {}

-----------------------------------------------------------------------------
(* C5: get_total_by_type(y, m, k) is the sum of valor over exactly the     *)
(* stored rows of year y, month m and tipo k, and is the number 0 when     *)
(* there is none.                                                          *)
(***************************************************************************)
\* what the row of this id, if stored, adds to the total of (y, m, k)
Share(id, y, m, k) ==
    IF \E r \in transacoes : r.id = id /\ r.data[1] = y /\ r.data[2] = m /\ r.tipo = k
    THEN RowOf(transacoes, id).valor
    ELSE 0

RECURSIVE SharesUpTo(_, _, _, _)
SharesUpTo(n, y, m, k) ==
    IF n = 0 THEN 0 ELSE Share(n, y, m, k) + SharesUpTo(n - 1, y, m, k)

C5_TotalByKindIsSum ==
    \A ym \in Months, k \in Tipos :
        LET total == get_total_by_type(transacoes, ym[1], ym[2], k)
        IN  /\ total \in Nat
            /\ total = SharesUpTo(next_id - 1, ym[1], ym[2], k)
            /\ (\A r \in transacoes :
                   ~(r.data[1] = ym[1] /\ r.data[2] = ym[2] /\ r.tipo = k))
               => total = 0

\* Home showed a month whose two despesa rows add up and that has no receita
C5_Witness ==
    /\ last.op = "home" /\ last.msg = "success"
    /\ view.total_despesa = 3000
    /\ view.total_receita = 0
    /\ \E r \in transacoes : r.data[2] = 5

-----------------------------------------------------------------------------
(* C6: whatever order the statement returns, get_expenses_by_category has  *)
(* one entry for each categoria with a despesa in the month and no other,  *)
(* each total counts despesa rows only, the totals descend, and they add   *)
(* up to get_total_by_type(y, m, 'despesa').                               *)
(***************************************************************************)
RECURSIVE SeqTotal(_, _)
SeqTotal(seq, i) ==
    IF i > Len(seq) THEN 0 ELSE seq[i].total + SeqTotal(seq, i + 1)

CategoryShare(id, y, m, cat) ==
    IF \E r \in transacoes : /\ r.id = id /\ r.data[1] = y /\ r.data[2] = m
                            /\ r.tipo = "despesa" /\ r.categoria = cat
    THEN RowOf(transacoes, id).valor
    ELSE 0

RECURSIVE CategorySharesUpTo(_, _, _, _)
CategorySharesUpTo(n, y, m, cat) ==
    IF n = 0 THEN 0
    ELSE CategoryShare(n, y, m, cat) + CategorySharesUpTo(n - 1, y, m, cat)

C6_ExpensesByCategory ==
    \A ym \in Months :
        LET results == get_expenses_by_category(transacoes, ym[1], ym[2])
            cats == {r.categoria : r \in {x \in transacoes :
                        /\ x.data[1] = ym[1] /\ x.data[2] = ym[2]
                        /\ x.tipo = "despesa"}}
        IN  /\ results # {}
            /\ \A seq \in results :
                  /\ Len(seq) = Cardinality(cats)
                  /\ {seq[i].categoria : i \in 1..Len(seq)} = cats
                  /\ \A i \in 1..Len(seq) :
                        seq[i].total =
                            CategorySharesUpTo(next_id - 1, ym[1], ym[2],
                                               seq[i].categoria)
                  /\ \A i, j \in 1..Len(seq) : i < j => seq[i].total >= seq[j].total
                  /\ SeqTotal(seq, 1) =
                        get_total_by_type(transacoes, ym[1], ym[2], "despesa")

\* Gastos listed the two categories of a month, the larger total first
C6_Witness ==
    /\ last.op = "gastos" /\ last.msg = "success"
    /\ Len(view.expenses_data) = 2
    /\ view.expenses_data[1].total > view.expenses_data[2].total
    /\ view.expenses_data[1].categoria # view.expenses_data[2].categoria

-----------------------------------------------------------------------------
(* C7: each stored row gets exactly one of the four colours, by the rules  *)
(* in order: receita -> green whatever pago and data; else pago -> blue    *)
(* whatever data; else data < today -> red; else (data = today too) ->     *)
(* yellow.  The colour never depends on the row classified before, and     *)
(* the function never fails.                                               *)
(***************************************************************************)
Classified(t, today, color) ==
    /\ color \in {Verde, Azul, Vermelho, Amarelo}
    /\ t.tipo = "receita" => color = Verde
    /\ (t.tipo # "receita" /\ t.pago = 1) => color = Azul
    /\ (t.tipo # "receita" /\ t.pago # 1 /\ DateLess(t.data, today)) => color = Vermelho
    /\ (t.tipo # "receita" /\ t.pago # 1 /\ ~DateLess(t.data, today)) => color = Amarelo

C7_ClassifyTotal ==
    \A today \in Todays :
        /\ \A t \in transacoes :
              \A prev \in {Verde, Azul, Vermelho, Amarelo, "UnboundLocalError"} :
                  Classified(t, today, event_color_of(t, today, prev))
        /\ \A ym \in Months, tie \in TieOrders :
              LET ts == get_transactions_by_month__wrapped(transacoes, ym[1], ym[2], tie)
                  events == get_calendar_events(transacoes, ym[1], ym[2], today, tie)
              IN  /\ Len(events) = Len(ts)
                  /\ \A i \in 1..Len(ts) :
                        /\ Classified(ts[i], today, events[i].color)
                        /\ events[i].start = ts[i].data

\* Home showed the calendar of a month that holds an overdue despesa (red)
\* beside a receita stored as paid (green, not blue)
C7_Witness ==
    /\ last.op = "home" /\ last.msg = "success"
    /\ Len(view.events) = 2
    /\ {e.color : e \in SeqRange(view.events)} = {Vermelho, Verde}
    /\ \E r \in transacoes : r.tipo = "receita" /\ r.pago = 1

-----------------------------------------------------------------------------
(* C8: an update of an id that is not stored does not display success: the *)
(* edit form saved for a record that is no longer in the table reports a   *)
(* failure.                                                                *)
(***************************************************************************)
C8_UpdateOfMissingIdFails ==
    (last.op = "update" /\ edit_data.id \notin Ids(transacoes))
        => last.msg # "success"

-----------------------------------------------------------------------------
(* C2: once every page 1..total_pages has been shown, in order, the pages  *)
(* put end to end hold every stored transaction exactly once, the later    *)
(* date first.                                                             *)
(***************************************************************************)
RECURSIVE Concat(_, _)
Concat(pages, i) ==
    IF i > Len(pages) THEN <<>> ELSE pages[i] \o Concat(pages, i + 1)

C2_PagesCoverEveryRowOnce ==
    (view.pages # <<>> /\ Len(view.pages) = total_pages(view.total_records))
        => LET all == Concat(view.pages, 1)
           IN  /\ Len(all) = Cardinality(transacoes)
               /\ SeqRange(all) = transacoes
               /\ \A i, j \in 1..Len(all) :
                     i < j => ~DateLess(all[i].data, all[j].data)

-----------------------------------------------------------------------------
(* C9: the list read back from each setting has no label twice; a          *)
(* submission of a label already in the list is reported and leaves the    *)
(* list as it was; any other submission that succeeds leaves the list it   *)
(* read with the new label appended last.                                  *)
(***************************************************************************)
StoredList(name) == SplitOrEmpty(configuracoes[name])

NoDuplicates(list) ==
    \A i, j \in 1..Len(list) : i # j => list[i] # list[j]

C9_SettingsListUniqueInOrder ==
    /\ NoDuplicates(StoredList("categorias"))
    /\ NoDuplicates(StoredList("formas_pagamento"))
    /\ last.op \in {"add_category", "add_payment"} =>
          /\ last.msg = "success"
                => StoredList(view.name) = Append(view.categories, view.new_label)
          /\ last.msg = "warning" => StoredList(view.name) = view.categories

-----------------------------------------------------------------------------
(* C11: delete(id), when it succeeds, leaves exactly the rows of the other *)
(* ids, each as it was; the id is gone from every page, every month's rows *)
(* and every total, and is not handed out again (the counter is left       *)
(* alone); on an id that is not stored it succeeds, when no call fails,    *)
(* and whatever happens the table is unchanged.                            *)
(***************************************************************************)
C11_DeleteRemovesOnlyThatRow ==
    \A id \in 1..MaxId : \A s \in Scripts(conn, Faults) :
        LET o == delete_transaction(DB, id, s, conn)
            after == o.db.transacoes
        IN  /\ o.ret = "True" =>
                  /\ after = {r \in transacoes : r.id # id}
                  /\ id \notin Ids(after)
                  /\ o.db.next_id = next_id
                  /\ id \in Ids(transacoes) => id < o.db.next_id
                  /\ \A tie \in TieOrders, page_number \in 1..2 :
                        id \notin Ids(SeqRange(get_paginated_transactions__wrapped(
                                          after, page_number, PageSize, tie).records))
                  /\ \A ym \in Months, tie \in TieOrders :
                        id \notin Ids(SeqRange(get_transactions_by_month__wrapped(
                                          after, ym[1], ym[2], tie)))
                  /\ \A ym \in Months, k \in Tipos :
                        get_total_by_type(after, ym[1], ym[2], k) =
                            get_total_by_type(transacoes, ym[1], ym[2], k)
                            - Share(id, ym[1], ym[2], k)
            /\ id \notin Ids(transacoes) =>
                  /\ after = transacoes
                  /\ s = NoScript => o.ret = "True"

\* Excluir succeeded on one of two stored rows and the other is still stored
C11_Witness ==
    /\ last.op = "delete" /\ last.msg = "success"
    /\ next_id = 3
    /\ Cardinality(transacoes) = 1

-----------------------------------------------------------------------------
(* C12: the page the session is on is one of the pages the table has:      *)
(* current_page_num is in 1 .. max(1, total_pages), and while transactions *)
(* are stored the page shows some of them.                                 *)
(***************************************************************************)
C12_CurrentPageInRange ==
    LET pages == total_pages(Cardinality(transacoes))
    IN  /\ current_page_num >= 1
        /\ current_page_num <= IF pages > 1 THEN pages ELSE 1
        /\ transacoes # {} => Shown # {}

-----------------------------------------------------------------------------
(* C13: a save of the edit form does not undo a write made since the form  *)
(* was opened.  A successful save whose paid checkbox was left as the form *)
(* showed it (the value stored by the save is the one of the edit_data     *)
(* snapshot) leaves a row that is stored as paid still paid; and a save    *)
(* for a row deleted meanwhile does not store it again.                    *)
(***************************************************************************)
SaveStep == last'.op = "update" /\ last'.msg = "success"

CheckboxUntouched ==
    \A r \in transacoes' : r.id = edit_data.id => r.pago = edit_data.pago

C13_SaveKeepsLaterWrites ==
    [][SaveStep =>
          /\ edit_data.id \notin Ids(transacoes) => transacoes' = transacoes
          /\ (/\ edit_data.id \in Ids(transacoes)
              /\ RowOf(transacoes, edit_data.id).pago = 1
              /\ CheckboxUntouched)
                => RowOf(transacoes', edit_data.id).pago = 1]_vars

=============================================================================
